---- MODULE Spec2Model ----
(***************************************************************************)
(* The GCODE interpreter of model/gcode_parser.py (parse_gcode_file) and   *)
(* the two conversion entry points that call it (gcode_to_json and         *)
(* gcode_to_obj), as a state machine that consumes the input one line per  *)
(* step.                                                                   *)
(*                                                                         *)
(* Numbers are integers: one unit stands for one step of a fixed grid      *)
(* (1/PerMm mm), and the arithmetic on them is exact.  A point is the      *)
(* 4-tuple <<x, y, z, e>>; Python's index i is index i+1 here.             *)
(***************************************************************************)
EXTENDS Integers, Sequences, FiniteSets, TLC

\* Longest input (in lines) the model reads, and the longest one of the
\* specification that looks further.
MaxLines == 3
MaxDeep == 5
\* Most polylines in one tool's list, where the lists themselves are the input.
MaxPolylines == 2
\* Most polylines in the input of a call that runs beside another.
MaxSolids == 2
\* Most points of a polyline whose simplification is followed round by round.
MaxPoints == 4
\* Most requests for the same converted file at a time.
MaxRequests == 2
\* Most players that ask for the same video stream.
MaxViewers == 3

(***************************************************************************)
(* Constants of parse_gcode_file                                           *)
(***************************************************************************)
COORD == <<"X", "Y", "Z", "E">>
SUPPORT_TYPES == {"SKIRT", "SUPPORT", "SUPPORT-INTERFACE", "PRIME-TOWER"}
INFILL_TYPES == {"FILL"}
\* command[0] == "T" and command[1:] in tuple('0123456'): entry k+1 selects core k
ToolCommands == <<"T0", "T1", "T2", "T3", "T4", "T5", "T6">>

\* COORD.find(p[0]): the axis index of a parameter letter, 0 when there is none
\* (Python's -1).
CoordFind(letter) ==
    IF \E i \in 1..Len(COORD) : COORD[i] = letter
    THEN CHOOSE i \in 1..Len(COORD) : COORD[i] = letter
    ELSE 0

\* include.index(printcore): the first position holding the core.
IncludeIndex(inc, core) ==
    CHOOSE i \in 1..Len(inc) : inc[i] = core /\ \A j \in 1..(i-1) : inc[j] # core

\* printcore in include
Included(inc, core) == \E i \in 1..Len(inc) : inc[i] = core

\* An interpreter that ignores the mode and always takes the parameter's value.
ApplyOp_Take(o, a, b) == b

\* The positioning operators: "take" is lambda a, b: b and "add" is operator.add.
ApplyOp(o, a, b) == IF o = "add" THEN a + b ELSE b

(***************************************************************************)
(* Input lines.  A parameter is its first letter, whether float() accepts  *)
(* the rest of its text, and the value float() then gives.  A line is its  *)
(* command word, its parameters and, for a ";TYPE:" comment, the type      *)
(* named.  EndOfFile is what the iterator gives when the input is          *)
(* exhausted.                                                              *)
(***************************************************************************)
Param(letter, value) == [letter |-> letter, ok |-> TRUE, value |-> value]
BadParam(letter) == [letter |-> letter, ok |-> FALSE, value |-> 0]
Line(command, parameters) ==
    [command |-> command, parameters |-> parameters, cur_type |-> ""]
TypeLine(type) == [command |-> ";TYPE:", parameters |-> <<>>, cur_type |-> type]
EndOfFile == Line("<EOF>", <<>>)

MoveLines ==
    { Line("G0", <<Param("X", 1)>>),
      Line("G1", <<Param("X", 2), Param("E", 1)>>),
      Line("G1", <<Param("X", 1), Param("E", 2)>>),
      Line("G1", <<Param("E", -1)>>),
      Line("G1", <<BadParam("F"), Param("X", 2), Param("E", 3)>>),
      Line("G1", <<Param("X", 1), BadParam("E")>>) }
SetPositionLines ==
    { Line("G92", <<Param("E", 0)>>),
      Line("G92", <<Param("X", 1)>>),
      Line("G92", <<BadParam("X")>>) }
SelectLines == { Line("T0", <<>>), Line("T1", <<>>) }
ModeLines == { Line("G90", <<>>), Line("G91", <<>>), Line("M82", <<>>), Line("M83", <<>>) }
TypeLines ==
    { TypeLine("SKIRT"), TypeLine("SUPPORT"), TypeLine("SUPPORT-INTERFACE"),
      TypeLine("PRIME-TOWER"), TypeLine("FILL"), TypeLine("WALL-OUTER") }
\* A blank or comment-only line, and lines whose command word is not recognised.
OtherLines == { Line("", <<>>), Line("M104", <<Param("S", 200)>>), Line("T7", <<>>) }

AllLines ==
    MoveLines \cup SetPositionLines \cup SelectLines \cup ModeLines
        \cup TypeLines \cup OtherLines

\* The calls tried: the arguments include, ignore_support and ignore_infill.
Includes == { <<>>, <<0>>, <<1>>, <<0, 1>>, <<1, 0>> }
Calls ==
    ({ <<0>> } \X BOOLEAN \X BOOLEAN)
        \cup (Includes \X {FALSE} \X {FALSE})
        \cup ({ <<0, 1>>, <<1, 0>> } \X {TRUE} \X {TRUE})
\* The calls of the specification that looks further: include starts with core 0.
DeepCalls == { <<>>, <<0>>, <<0, 1>> } \X {TRUE} \X {FALSE}

VARIABLES
    gcode,           \* argument gcode: the lines the input begins with
    include,         \* argument include
    ignore_support,  \* argument ignore_support
    ignore_infill,   \* argument ignore_infill
    gcode_line,      \* the line the loop over gcode takes next
    lineno,          \* number of lines read so far
    limit,           \* the length the input does not exceed
    pc,              \* where the call is: "call", "parse", "parsed", "done", "error"
    lines,           \* lines[i]: the polylines of the core at include position i
    cur_lines,       \* the position in lines that cur_lines refers to
    max_used_core,
    current_pt,
    e_change,
    printcore,
    skipping_type,
    relative_pos,
    op,
    extruder_op,
    cur_type,        \* the type the last ";TYPE:" comment named ("" before the first)
    extruder_lines,  \* the value parse_gcode_file returned
    written,         \* what the call wrote to the sink out
    returned,        \* what the call returned
    simplified,      \* gcode_to_json: extruder_lines after line 42; gcode_to_obj: the
                     \* lists that line 423 simplified
    z_levels,        \* gcode_to_json: z_levels after line 47
    \* History of the input read so far, kept to state the properties below; no
    \* step of the program reads it.
    highest_selected, \* the highest core a tool-select command named (0: the default core)
    shared_mode,      \* the mode the last G90/G91 set ("take" before the first)
    e_only,           \* the mode the last M82/M83 chose ("" before the first)
    retractions,      \* per include position: the retractions not yet made up for
    runs,             \* the runs of relative-E moves that end at the last line read
    last_move,        \* the last linear move read: the active core, and whether it was skipped
    \* What calls that run side by side in one process share and keep apart.
    cache,            \* the lru_cache of create_faces: the array stored for each n
    worker,           \* per thread running gcode_to_obj: its local variables
    loop,             \* simplify_lines taken a round at a time: the locals of its loop
    \* The server around the conversions (src/model/__init__.py, src/video/__init__.py).
    gcode_file,       \* the printer's gcode on disk: whether it is newer than the job's start
    output_file,      \* the converted file on disk: what it holds, and whether it is newer
    request,          \* per model request: where generate_model is, in its pool process
    streams,          \* the module's table streams, for one printer name
    playlist,         \* whether the printer's .m3u8 file exists
    transcoders,      \* the transcoding processes started and not terminated
    viewer            \* per video request: where VideoHandler.get is

vars ==
    << gcode, include, ignore_support, ignore_infill, gcode_line, lineno, limit, pc,
       lines, cur_lines, max_used_core, current_pt, e_change, printcore,
       skipping_type, relative_pos, op, extruder_op, cur_type, extruder_lines,
       written, returned, simplified, z_levels,
       highest_selected, shared_mode, e_only, retractions, runs, last_move, cache, worker,
       loop, gcode_file, output_file, request, streams, playlist, transcoders, viewer >>

args == << gcode, include, ignore_support, ignore_infill, limit >>
result == << extruder_lines, written, returned, simplified, z_levels >>
history == << highest_selected, shared_mode, e_only, retractions, runs, last_move >>
server == << gcode_file, output_file, request, streams, playlist, transcoders, viewer >>
pool == << cache, worker, loop, server >>

\* Nothing was written or returned.
Nothing == [kind |-> "nothing"]
NoMove == [core |-> -1, skipped |-> FALSE]

\* The lines the input may continue with once n lines were read: the lines of
\* gcode first, then any line while fewer than `most` lines were read.
Feed(n, most) ==
    IF n < Len(gcode) THEN {gcode[n + 1]}
    ELSE IF n >= most THEN {EndOfFile}
    ELSE AllLines \cup {EndOfFile}

\* The loop takes its next line.
NextLine ==
    /\ lineno' = lineno + 1
    /\ gcode_line' \in Feed(lineno + 1, limit)

\* The state when a conversion is called with one of `calls` on an input that
\* begins with one of `texts` and goes on to at most `most` lines.
\* The cache of a process that has not called create_faces yet.
NoEntries == [n \in {} |-> <<>>]

Called(texts, most, calls) ==
    /\ gcode \in texts
    /\ \E c \in calls :
         /\ include = c[1]
         /\ ignore_support = c[2]
         /\ ignore_infill = c[3]
    /\ limit = most
    /\ gcode_line \in Feed(0, most)
    /\ lineno = 0
    /\ pc = "call"
    /\ lines = [i \in 1..Len(include) |-> << <<>> >>]
    /\ cur_lines = 1
    /\ max_used_core = 0
    /\ current_pt = <<0, 0, 0, 0>>
    /\ e_change = [i \in 1..Len(include) |-> 0]
    /\ printcore = 0
    /\ skipping_type = FALSE
    /\ relative_pos = <<0, 0, 0, 0>>
    /\ op = "take"
    /\ extruder_op = "take"
    /\ cur_type = ""
    /\ extruder_lines = <<>>
    /\ written = Nothing
    /\ returned = Nothing
    /\ simplified = <<>>
    /\ z_levels = <<>>
    /\ highest_selected = 0
    /\ shared_mode = "take"
    /\ e_only = ""
    /\ retractions = [i \in 1..Len(include) |-> {}]
    /\ runs = {}
    /\ last_move = NoMove
    /\ cache = NoEntries

\* No request to the server.
Offline ==
    /\ gcode_file = Nothing
    /\ output_file = Nothing
    /\ request = <<>>
    /\ streams = Nothing
    /\ playlist = FALSE
    /\ transcoders = {}
    /\ viewer = <<>>

\* One call, and no other thread.
Init == Called({<<>>}, MaxLines, Calls) /\ worker = <<>> /\ loop = Nothing /\ Offline
InitDeep == Called({<<>>}, MaxDeep, DeepCalls) /\ worker = <<>> /\ loop = Nothing /\ Offline

(***************************************************************************)
(* Helpers of the loop body                                                *)
(***************************************************************************)
\* A tokenizer that accepts every parameter as a number.
Malformed_Never(parameters) == FALSE

\* A tokenizer that converts every parameter, whatever its letter.
Malformed_AnyLetter(parameters) == \E k \in 1..Len(parameters) : ~parameters[k].ok

\* float(p[1:]) raises ValueError for some parameter whose letter is an axis.
Malformed(parameters) ==
    \E k \in 1..Len(parameters) :
        CoordFind(parameters[k].letter) # 0 /\ ~parameters[k].ok

\* The parameter loop of G0/G1: each axis parameter, in order, updates its
\* coordinate with extruder_op (E) or op (X, Y, Z).
RECURSIVE UpdatePoint(_, _, _, _)
UpdatePoint(pt, parameters, o, eo) ==
    IF parameters = <<>> THEN pt
    ELSE LET p == Head(parameters)
             idx == CoordFind(p.letter)
             moved == IF idx = 0 THEN pt
                      ELSE IF idx = 4
                           THEN [pt EXCEPT ![4] = ApplyOp(eo, pt[4], p.value)]
                           ELSE [pt EXCEPT ![idx] = ApplyOp(o, pt[idx], p.value)]
         IN UpdatePoint(moved, Tail(parameters), o, eo)

\* The parameter loop of G92 on <<current_pt, relative_pos>>.
RECURSIVE SetPosition(_, _, _)
SetPosition(pt, rel, parameters) ==
    IF parameters = <<>> THEN <<pt, rel>>
    ELSE LET p == Head(parameters)
             idx == CoordFind(p.letter)
         IN IF idx = 0 THEN SetPosition(pt, rel, Tail(parameters))
            ELSE SetPosition([pt EXCEPT ![idx] = p.value],
                             [rel EXCEPT ![idx] = rel[idx] + pt[idx]],
                             Tail(parameters))

\* An accumulator that forgets a retraction: it holds the last delta only.
Ratchet_NoCarry(e, delta) == delta

\* e_change[pci] after a move that changed E by delta.
Ratchet(e, delta) == (IF e <= 0 THEN e ELSE 0) + delta

\* Closing the open line whatever its length, never reusing it.
StartLine_AlwaysClose(buffer) == Append(buffer, <<>>)

\* A move that does not extrude starts a new line in the buffer.
StartLine(buffer) ==
    IF Len(buffer[Len(buffer)]) <= 1
    THEN [buffer EXCEPT ![Len(buffer)] = <<>>]
    ELSE Append(buffer, <<>>)

\* cur_lines[-1].append(pt)
AppendPoint(buffer, pt) ==
    [buffer EXCEPT ![Len(buffer)] = Append(buffer[Len(buffer)], pt)]

\* Recording the point whether or not the geometry type is skipped.
Record_Always(buffer, pt, skipping) ==
    [buffer EXCEPT ![Len(buffer)] = Append(buffer[Len(buffer)], pt)]

\* if not skipping_type: cur_lines[-1].append(pt)
Record(buffer, pt, skipping) ==
    IF skipping THEN buffer ELSE AppendPoint(buffer, pt)

\* [c+r for c, r in zip(current_pt, relative_pos)]
Physical(pt, rel) == [i \in 1..4 |-> pt[i] + rel[i]]

\* A buffer's lines of more than one point.
RECURSIVE MultiPoint(_)
MultiPoint(buffer) ==
    IF buffer = <<>> THEN <<>>
    ELSE IF Len(Head(buffer)) > 1
         THEN <<Head(buffer)>> \o MultiPoint(Tail(buffer))
         ELSE MultiPoint(Tail(buffer))

\* The positions deleted as unused cores.
UnusedPositions(inc, maxcore) ==
    { IncludeIndex(inc, inc[i]) : i \in { j \in 1..Len(inc) : inc[j] > maxcore } }

\* The positions of lines that are returned, in order.
RECURSIVE KeptFrom(_, _, _)
KeptFrom(i, inc, maxcore) ==
    IF i > Len(inc) THEN <<>>
    ELSE IF i \in UnusedPositions(inc, maxcore)
         THEN KeptFrom(i + 1, inc, maxcore)
         ELSE <<i>> \o KeptFrom(i + 1, inc, maxcore)
\* Returning the lines of every included core, selected or not.
KeptPositions_All(inc, maxcore) == [i \in 1..Len(inc) |-> i]

KeptPositions(inc, maxcore) == KeptFrom(1, inc, maxcore)

\* What parse_gcode_file returns for the buffers it built.
PostProcess(ls, inc, maxcore) ==
    LET kept == KeptPositions(inc, maxcore)
    IN [k \in 1..Len(kept) |-> MultiPoint(ls[kept[k]])]

(***************************************************************************)
(* The history variables' updates                                          *)
(***************************************************************************)
\* The sum of the E parameters of a line.
RECURSIVE SumE(_)
SumE(parameters) ==
    IF parameters = <<>> THEN 0
    ELSE (IF Head(parameters).letter = "E" THEN Head(parameters).value ELSE 0)
         + SumE(Tail(parameters))

\* The runs of relative-E moves after one more such move, which found E at e and
\* gave the E parameters summing to v.
RunsAfter(rs, e, v) ==
    { [start |-> r.start, sum |-> r.sum + v, moves |-> r.moves + 1] : r \in rs }
        \cup { [start |-> e, sum |-> v, moves |-> 1] }

\* The retractions of a core not yet made up for, after a move of that core that
\* changed E by delta: a negative delta is a new retraction of size -delta, a
\* positive one counts towards every open retraction, and a retraction is made
\* up for once the positive deltas since it exceed its size.
RetractionsAfter(open, delta) ==
    IF delta < 0 THEN open \cup { [size |-> -delta, gained |-> 0] }
    ELSE { x \in { [size |-> o.size, gained |-> o.gained + delta] : o \in open } :
             x.gained <= x.size }

(***************************************************************************)
(* The steps of parse_gcode_file                                           *)
(***************************************************************************)
parser == << lines, cur_lines, max_used_core, current_pt, e_change, printcore,
             skipping_type, relative_pos, op, extruder_op, cur_type >>

\* The call enters the loop.
BeginParse ==
    /\ pc = "call"
    /\ Len(include) # 0
    /\ pc' = "parse"
    /\ UNCHANGED << args, pool, gcode_line, lineno, parser, result, history >>

\* A ";TYPE:" comment.
TypeComment ==
    /\ pc = "parse"
    /\ gcode_line.command = ";TYPE:"
    /\ cur_type' = gcode_line.cur_type
    /\ skipping_type' =
           ( (ignore_support /\ gcode_line.cur_type \in SUPPORT_TYPES)
             \/ (ignore_infill /\ gcode_line.cur_type \in INFILL_TYPES) )
    /\ NextLine
    /\ UNCHANGED << args, pool, pc, lines, cur_lines, max_used_core, current_pt, e_change,
                    printcore, relative_pos, op, extruder_op, result, history >>

\* A line that is empty once its comment is removed.
BlankLine ==
    /\ pc = "parse"
    /\ gcode_line.command = ""
    /\ NextLine
    /\ UNCHANGED << args, pool, pc, parser, result, history >>

\* T0 .. T6
ToolSelect ==
    /\ pc = "parse"
    /\ \E k \in 1..Len(ToolCommands) :
        /\ gcode_line.command = ToolCommands[k]
        /\ printcore' = k - 1
        /\ IF Included(include, k - 1)
           THEN /\ cur_lines' = IncludeIndex(include, k - 1)
                /\ max_used_core' = IF k - 1 > max_used_core THEN k - 1 ELSE max_used_core
           ELSE UNCHANGED << cur_lines, max_used_core >>
        /\ highest_selected' = IF k - 1 > highest_selected THEN k - 1 ELSE highest_selected
    /\ NextLine
    /\ UNCHANGED << args, pool, pc, lines, current_pt, e_change, skipping_type,
                    relative_pos, op, extruder_op, cur_type, result,
                    shared_mode, e_only, retractions, runs, last_move >>

\* G90 that leaves the E operator as M82/M83 set it.
G90_SharedOnly ==
    /\ pc = "parse"
    /\ gcode_line.command = "G90"
    /\ op' = "take"
    /\ shared_mode' = "take"
    /\ runs' = {}
    /\ NextLine
    /\ UNCHANGED << args, pool, pc, lines, cur_lines, max_used_core, current_pt, e_change,
                    printcore, skipping_type, relative_pos, extruder_op, cur_type, result,
                    highest_selected, e_only, retractions,
                    last_move >>

G90 ==
    /\ pc = "parse"
    /\ gcode_line.command = "G90"
    /\ op' = "take"
    /\ extruder_op' = "take"
    /\ shared_mode' = "take"
    /\ runs' = {}
    /\ NextLine
    /\ UNCHANGED << args, pool, pc, lines, cur_lines, max_used_core, current_pt, e_change,
                    printcore, skipping_type, relative_pos, cur_type, result,
                    highest_selected, e_only, retractions,
                    last_move >>

G91 ==
    /\ pc = "parse"
    /\ gcode_line.command = "G91"
    /\ op' = "add"
    /\ extruder_op' = "add"
    /\ shared_mode' = "add"
    /\ NextLine
    /\ UNCHANGED << args, pool, pc, lines, cur_lines, max_used_core, current_pt, e_change,
                    printcore, skipping_type, relative_pos, cur_type, result,
                    highest_selected, e_only, retractions, runs,
                    last_move >>

M82 ==
    /\ pc = "parse"
    /\ gcode_line.command = "M82"
    /\ extruder_op' = "take"
    /\ e_only' = "take"
    /\ runs' = {}
    /\ NextLine
    /\ UNCHANGED << args, pool, pc, lines, cur_lines, max_used_core, current_pt, e_change,
                    printcore, skipping_type, relative_pos, op, cur_type, result,
                    highest_selected, shared_mode, retractions, last_move >>

\* M83 handled as G91 is: both operators become relative.
M83_BothOperators ==
    /\ pc = "parse"
    /\ gcode_line.command = "M83"
    /\ extruder_op' = "add"
    /\ op' = "add"
    /\ e_only' = "add"
    /\ NextLine
    /\ UNCHANGED << args, pool, pc, lines, cur_lines, max_used_core, current_pt, e_change,
                    printcore, skipping_type, relative_pos, cur_type, result,
                    highest_selected, shared_mode, retractions, runs, last_move >>

M83 ==
    /\ pc = "parse"
    /\ gcode_line.command = "M83"
    /\ extruder_op' = "add"
    /\ e_only' = "add"
    /\ NextLine
    /\ UNCHANGED << args, pool, pc, lines, cur_lines, max_used_core, current_pt, e_change,
                    printcore, skipping_type, relative_pos, op, cur_type, result,
                    highest_selected, shared_mode, retractions, runs, last_move >>

\* G92; a malformed axis parameter raises ValueError out of the call.
G92 ==
    /\ pc = "parse"
    /\ gcode_line.command = "G92"
    /\ IF Malformed(gcode_line.parameters)
       THEN /\ pc' = "error"
            /\ UNCHANGED << gcode_line, lineno, current_pt, relative_pos, runs >>
       ELSE LET set == SetPosition(current_pt, relative_pos, gcode_line.parameters)
            IN /\ current_pt' = set[1]
               /\ relative_pos' = set[2]
               /\ runs' = {}
               /\ NextLine
               /\ UNCHANGED pc
    /\ UNCHANGED << args, pool, lines, cur_lines, max_used_core, e_change, printcore,
                    skipping_type, op, extruder_op, cur_type, result,
                    highest_selected, shared_mode, e_only, retractions, last_move >>

\* G0 or G1; a malformed axis parameter raises ValueError out of the call.
Move ==
    /\ pc = "parse"
    /\ gcode_line.command \in {"G0", "G1"}
    /\ IF Malformed(gcode_line.parameters)
       THEN /\ pc' = "error"
            /\ UNCHANGED << gcode_line, lineno, current_pt, e_change, lines,
                            retractions, runs, last_move >>
       ELSE LET last_e == current_pt[4]
                moved == UpdatePoint(current_pt, gcode_line.parameters, op, extruder_op)
            IN /\ current_pt' = moved
               /\ IF Included(include, printcore)
                  THEN LET pci == IncludeIndex(include, printcore)
                           ec == Ratchet(e_change[pci], moved[4] - last_e)
                           started == IF ec <= 0 THEN StartLine(lines[cur_lines])
                                      ELSE lines[cur_lines]
                           pt == Physical(moved, relative_pos)
                       IN /\ e_change' = [e_change EXCEPT ![pci] = ec]
                          /\ lines' = [lines EXCEPT ![cur_lines] =
                                         Record(started, pt, skipping_type)]
                          /\ retractions' = [retractions EXCEPT ![pci] =
                                         RetractionsAfter(@, moved[4] - last_e)]
                  ELSE UNCHANGED << e_change, lines, retractions >>
               /\ runs' = IF extruder_op = "add"
                          THEN RunsAfter(runs, last_e, SumE(gcode_line.parameters))
                          ELSE {}
               /\ last_move' = [core |-> printcore,
                                skipped |-> skipping_type \/ ~Included(include, printcore)]
               /\ NextLine
               /\ UNCHANGED pc
    /\ UNCHANGED << args, pool, cur_lines, max_used_core, printcore, skipping_type,
                    relative_pos, op, extruder_op, cur_type, result,
                    highest_selected, shared_mode, e_only >>

\* A command word that no branch of the loop recognises.
Recognised(command) ==
    \/ command \in {";TYPE:", "", "G90", "G91", "M82", "M83", "G92", "G0", "G1"}
    \/ \E k \in 1..Len(ToolCommands) : command = ToolCommands[k]

OtherCommand ==
    /\ pc = "parse"
    /\ gcode_line # EndOfFile
    /\ ~Recognised(gcode_line.command)
    /\ NextLine
    /\ UNCHANGED << args, pool, pc, parser, result, history >>

\* The input is exhausted: the buffers are filtered and returned.
EndOfInput ==
    /\ pc = "parse"
    /\ gcode_line = EndOfFile
    /\ extruder_lines' = PostProcess(lines, include, max_used_core)
    /\ pc' = "parsed"
    /\ UNCHANGED << args, pool, gcode_line, lineno, parser, written, returned, simplified,
                    z_levels, history >>

(***************************************************************************)
(* simplify_lines.  Coordinates are whole numbers of 1/PerMm millimetre,   *)
(* so the squared lengths below are integers and the comparisons with the  *)
(* tolerances are exact.  With c2 = |cross(a-c, b-c)|^2 in model units:    *)
(*   area > area_tolerance       iff  AreaScale * c2 > 4 PerMm^4           *)
(*   sin_theta > sin_tolerance   iff  SinScale * c2 > |a-c|^2 |b-c|^2      *)
(*   norm(q - p) < sqrt(area_tolerance)                                    *)
(*                               iff  LengthScale * |q-p|^2 < PerMm^2      *)
(* (a zero edge gives 0/0 = nan, and nan > sin_tolerance is false).  For   *)
(* whole numbers n and S > 0, S * n > m iff n > m \div S, which keeps the   *)
(* products small.  PerMm is chosen so that no whole number of units lies  *)
(* on a tolerance: no comparison is decided by float rounding.             *)
(***************************************************************************)
\* Model units per millimetre.
PerMm == 15
\* 1 / area_tolerance^2, 1 / (4 * sin_tolerance^2) and 1 / area_tolerance
AreaScale == 10000
SinScale == 250000
LengthScale == 100

Sub3(p, q) == << p[1] - q[1], p[2] - q[2], p[3] - q[3] >>
Cross(u, v) ==
    << u[2] * v[3] - u[3] * v[2], u[3] * v[1] - u[1] * v[3], u[1] * v[2] - u[2] * v[1] >>
Norm2(u) == u[1] * u[1] + u[2] * u[2] + u[3] * u[3]

\* The comparison with the area tolerance the wrong way round.
KeepPoint_Below(a, b, c) ==
    Norm2(Cross(Sub3(a, c), Sub3(b, c)))
        <= (4 * PerMm * PerMm * PerMm * PerMm) \div AreaScale

\* keep, for the interior point b between a and c
KeepPoint(a, b, c) ==
    LET ac == Sub3(a, c)
        bc == Sub3(b, c)
        cross2 == Norm2(Cross(ac, bc))
    IN /\ cross2 > (4 * PerMm * PerMm * PerMm * PerMm) \div AreaScale
       /\ cross2 > (Norm2(ac) * Norm2(bc)) \div SinScale

\* keep, padded with True at both ends, as the set of positions kept
KeepMask(line) ==
    { k \in 1..Len(line) :
        k = 1 \/ k = Len(line) \/ KeepPoint(line[k-1], line[k], line[k+1]) }

\* A selection that drops nothing.
Masked_Nothing(line, mask, k) == line

\* line[keep]
RECURSIVE Masked(_, _, _)
Masked(line, mask, k) ==
    IF k > Len(line) THEN <<>>
    ELSE (IF k \in mask THEN <<line[k]>> ELSE <<>>) \o Masked(line, mask, k + 1)

\* np.linalg.norm(line[1] - line[0]) < length_tolerance, over all of a point's columns
TooShort(line) ==
    LET d == [c \in 1..4 |-> line[2][c] - line[1][c]]
    IN LengthScale * (d[1] * d[1] + d[2] * d[2] + d[3] * d[3] + d[4] * d[4])
          < PerMm * PerMm

\* One round of the loop and no more.
SimplifyLine_OnePass(line, is_cycle) ==
    IF Len(line) = 2 \/ (is_cycle /\ Len(line) = 3)
    THEN [line |-> line, remove |-> TooShort(line)]
    ELSE [line |-> Masked(line, KeepMask(line), 1), remove |-> FALSE]

\* The while loop on one line: the simplified line and whether it is removed.
RECURSIVE SimplifyLine(_, _)
SimplifyLine(line, is_cycle) ==
    IF Len(line) = 2 \/ (is_cycle /\ Len(line) = 3)
    THEN [line |-> line, remove |-> TooShort(line)]
    ELSE IF KeepMask(line) = 1..Len(line)
         THEN [line |-> line, remove |-> FALSE]
         ELSE SimplifyLine(Masked(line, KeepMask(line), 1), is_cycle)

IsCycle(line) == line[1][1] = line[Len(line)][1] /\ line[1][2] = line[Len(line)][2]

RECURSIVE simplify_lines(_)
simplify_lines(ls) ==
    IF ls = <<>> THEN <<>>
    ELSE LET line == Head(ls)
             rest == simplify_lines(Tail(ls))
         IN IF Len(line) < 2 THEN rest
            ELSE LET s == SimplifyLine(line, IsCycle(line))
                 IN IF s.remove THEN rest ELSE <<s.line>> \o rest

(***************************************************************************)
(* gcode_to_json after parsing.  A layer's centre z - h/2 is kept doubled  *)
(* (z2 = 2z - h), so that it stays an integer.                             *)
(***************************************************************************)
extruder_separation == 18

\* The distinct values in descending order.
RECURSIVE SortedSeq_Descending(_)
SortedSeq_Descending(S) ==
    IF S = {} THEN <<>>
    ELSE LET m == CHOOSE x \in S : \A y \in S : x >= y
         IN <<m>> \o SortedSeq_Descending(S \ {m})

\* np.unique over the first points' z of every tool's lines, as a sorted sequence
RECURSIVE SortedSeq(_)
SortedSeq(S) ==
    IF S = {} THEN <<>>
    ELSE LET m == CHOOSE x \in S : \A y \in S : x <= y
         IN <<m>> \o SortedSeq(S \ {m})

ZLevels(tools) ==
    SortedSeq(UNION { { tools[i][j][1][3] : j \in 1..Len(tools[i]) } :
                        i \in 1..Len(tools) })

\* Every layer as high as the lowest one.
Heights_Uniform(levels) == [k \in 1..Len(levels) |-> levels[1]]

\* np.concatenate([[z_levels[0]], np.diff(z_levels)])
Heights(levels) ==
    [k \in 1..Len(levels) |-> IF k = 1 THEN levels[1] ELSE levels[k] - levels[k-1]]

\* A lookup that files every line under the lowest level.
LayerNumber_Lowest(line, levels) == 1

\* get_layer_number
LayerNumber(line, levels) ==
    CHOOSE k \in 1..Len(levels) :
        levels[k] = line[1][3] /\ \A j \in 1..(k-1) : levels[j] # line[1][3]

\* line[:, :2] of a line of the tool at position i (0-based 1 is shifted in x)
XY(line, i) ==
    [k \in 1..Len(line) |->
        << line[k][1] + (IF i = 2 THEN extruder_separation * PerMm ELSE 0),
           line[k][2] >>]

\* The xy lists of the lines of one tool that lie on layer k, in order.
RECURSIVE LayerLines(_, _, _, _)
LayerLines(ls, i, k, levels) ==
    IF ls = <<>> THEN <<>>
    ELSE (IF LayerNumber(Head(ls), levels) = k THEN <<XY(Head(ls), i)>> ELSE <<>>)
         \o LayerLines(Tail(ls), i, k, levels)

LayersAll(tools) ==
    LET levels == ZLevels(tools)
        heights == Heights(levels)
    IN [i \in 1..Len(tools) |->
          [k \in 1..Len(levels) |->
             [z2 |-> 2 * levels[k] - heights[k],
              height |-> heights[k],
              lines |-> LayerLines(tools[i], i, k, levels)]]]

\* The text gcode_to_json returns for an empty include.
EmptyLayersText == [kind |-> "text", text |-> "{'layers':[]}"]
None == [kind |-> "None"]

\* gcode_to_json called with an empty include: line 25 returns at once.
JsonEmptyInclude ==
    /\ pc = "call"
    /\ Len(include) = 0
    /\ returned' = EmptyLayersText
    /\ pc' = "done"
    /\ UNCHANGED << args, pool, gcode_line, lineno, parser, extruder_lines, written,
                    simplified, z_levels, history >>

\* parse_gcode_file called (by gcode_to_obj) with an empty include.
ParseEmptyInclude ==
    /\ pc = "call"
    /\ Len(include) = 0
    /\ extruder_lines' = <<>>
    /\ pc' = "parsed"
    /\ UNCHANGED << args, pool, gcode_line, lineno, parser, written, returned, simplified,
                    z_levels, history >>

\* The rest of gcode_to_json, writing to the sink out or returning the text.
JsonFinish ==
    /\ pc = "parsed"
    /\ Len(include) # 0
    /\ LET tools == [i \in 1..Len(extruder_lines) |-> simplify_lines(extruder_lines[i])]
       IN /\ simplified' = tools
          /\ z_levels' = IF Len(tools) = 0 THEN <<>> ELSE ZLevels(tools)
          /\ IF Len(tools) = 0 \/ ZLevels(tools) = <<>>
             THEN \* extruder_lines[0], or z_levels[0], raises IndexError
                  /\ pc' = "error"
                  /\ UNCHANGED << written, returned >>
             ELSE /\ pc' = "done"
                  /\ \E sink \in BOOLEAN :
                       LET data == [kind |-> "json", layers |-> LayersAll(tools)]
                       IN IF sink
                          THEN written' = data /\ returned' = None
                          ELSE returned' = data /\ UNCHANGED written
    /\ UNCHANGED << args, pool, gcode_line, lineno, parser, extruder_lines, history >>

(***************************************************************************)
(* gcode_to_obj after parsing.  The mesh is kept as the number of vertices,*)
(* what each vertex stands for (layout) and the faces' vertex indices; the *)
(* vertices' coordinates are not modelled.                                 *)
(***************************************************************************)
\* get_line_height raises for a line that is not on the lowest level of its tool:
\* it hands get_layer_number the scalar line[0, 2], which cannot be indexed.
HeightRaises(ls) ==
    \E j \in 1..Len(ls) : ZLevels(<<ls>>)[1] # ls[j][1][3]

\* create_faces(n): the bottom, top, right and left triangles of each of the n-1
\* segments, then the front and back caps; m is 2n.
SegmentFaces(i, m) ==
    << <<i, i+1, i+3>>, <<i, i+3, i+2>>,
       <<i+m, i+3+m, i+1+m>>, <<i+m, i+2+m, i+3+m>>,
       <<i, i+2, i+m>>, <<i+2, i+2+m, i+m>>,
       <<i+1, i+1+m, i+3>>, <<i+3, i+1+m, i+3+m>> >>

RECURSIVE SegmentsFrom(_, _)
SegmentsFrom(i, m) ==
    IF i >= m - 2 THEN <<>> ELSE SegmentFaces(i, m) \o SegmentsFrom(i + 2, m)

\* The caps left out.
create_faces_NoCaps(n) == SegmentsFrom(0, 2 * n)

create_faces(n) ==
    LET m == 2 * n
    IN SegmentsFrom(0, m)
       \o << <<0, m+1, 1>>, <<0, m, m+1>>,
             <<m-2, m-1, 2*m-1>>, <<m-2, 2*m-1, 2*m-2>> >>

\* The offset left out.
Shifted_Local(faces, offset) == faces

Shifted(faces, offset) ==
    [f \in 1..Len(faces) |-> [c \in 1..3 |-> faces[f][c] + offset]]

\* The facets appended for the lines ls, the first at vertex offset.
RECURSIVE Facets(_, _)
Facets(ls, offset) ==
    IF ls = <<>> THEN <<>>
    ELSE Shifted(create_faces(Len(Head(ls))), offset)
         \o Facets(Tail(ls), offset + 4 * Len(Head(ls)))

\* get_vertices: the rows of vertices_all.  The second half (vertices) holds,
\* for each point of the line in turn, the point minus and plus its normal;
\* the first half is the second half moved down by line_height.
get_vertices(line) ==
    LET num_pts == Len(line)
    IN [k \in 1..(num_pts * 4) |->
          [point |-> ((k - 1) % (num_pts * 2)) \div 2 + 1,
           side |-> IF (k - 1) % 2 = 0 THEN "minus" ELSE "plus",
           lowered |-> k <= num_pts * 2]]

\* np.concatenate(vertices)
RECURSIVE Vertices(_)
Vertices(ls) == IF ls = <<>> THEN <<>> ELSE get_vertices(Head(ls)) \o Vertices(Tail(ls))

RECURSIVE VertexCount(_)
VertexCount(ls) == IF ls = <<>> THEN 0 ELSE 4 * Len(Head(ls)) + VertexCount(Tail(ls))

\* All tools' simplified lines, in the order the loop meets them.
RECURSIVE Flatten(_)
Flatten(tools) == IF tools = <<>> THEN <<>> ELSE Head(tools) \o Flatten(Tail(tools))

\* The cache after create_faces has been called with the length of each of the
\* lines ls: an entry is made for a length that has none, and kept otherwise.
CacheAfter(entries, ls) ==
    [n \in DOMAIN entries \cup { Len(ls[k]) : k \in 1..Len(ls) } |->
        IF n \in DOMAIN entries THEN entries[n] ELSE create_faces(n)]

\* An exporter that heads even an empty mesh with a comment line.
EmptyText_Headed == [kind |-> "text", text |-> "# empty mesh"]

\* The text gcode_to_obj returns when there are no vertices.
EmptyText == [kind |-> "text", text |-> ""]

\* The rest of gcode_to_obj.  The loop over the tools stops at the first tool
\* for which get_line_height raises.
ObjFinish ==
    /\ pc = "parsed"
    /\ LET tools == [i \in 1..Len(extruder_lines) |-> simplify_lines(extruder_lines[i])]
           all == Flatten(tools)
           raising == { i \in 1..Len(tools) : HeightRaises(tools[i]) }
       IN IF raising # {}
          THEN LET first == CHOOSE i \in raising : \A j \in raising : i <= j
               IN /\ pc' = "error"
                  /\ simplified' = SubSeq(tools, 1, first)
                  /\ cache' = CacheAfter(cache, Flatten(SubSeq(tools, 1, first - 1)))
                  /\ UNCHANGED << written, returned >>
          ELSE /\ pc' = "done"
               /\ simplified' = tools
               /\ cache' = CacheAfter(cache, all)
               /\ IF all = <<>>
                  THEN returned' = EmptyText /\ UNCHANGED written
                  ELSE \E sink \in BOOLEAN :
                         LET obj == [kind |-> "obj", vertices |-> VertexCount(all),
                                     layout |-> Vertices(all),
                                     faces |-> Facets(all, 0)]
                         IN IF sink
                            THEN written' = obj /\ returned' = None
                            ELSE returned' = obj /\ UNCHANGED written
    /\ UNCHANGED << args, worker, loop, server, gcode_line, lineno, parser, extruder_lines,
                    z_levels, history >>

Next ==
    \/ JsonEmptyInclude
    \/ ParseEmptyInclude
    \/ BeginParse
    \/ TypeComment
    \/ BlankLine
    \/ ToolSelect
    \/ G90
    \/ G91
    \/ M82
    \/ M83
    \/ G92
    \/ Move
    \/ OtherCommand
    \/ EndOfInput
    \/ JsonFinish
    \/ ObjFinish

Spec == Init /\ [][Next]_vars
SpecDeep == InitDeep /\ [][Next]_vars

(***************************************************************************)
(* The conversions from the lists parse_gcode_file returned on.  The       *)
(* polylines are drawn from samples (in units of 1/PerMm mm) that meet     *)
(* every branch of simplify_lines and lie on different z levels.           *)
(***************************************************************************)
\* Three points in line.
Straight == << <<0, 0, 2, 0>>, <<10, 0, 2, 5>>, <<20, 0, 2, 10>> >>
\* A closed square loop.
Square ==
    << <<0, 0, 2, 0>>, <<150, 0, 2, 50>>, <<150, 150, 2, 100>>, <<0, 150, 2, 150>>,
       <<0, 0, 2, 200>> >>
\* A closed loop around less than the area tolerance.
Speck == << <<0, 0, 4, 0>>, <<1, 0, 4, 1>>, <<0, 1, 4, 2>>, <<0, 0, 4, 3>> >>
\* Extruding in place.
Blob == << <<5, 5, 4, 0>>, <<5, 5, 4, 10>> >>
\* Two points less than the length tolerance apart.
Dot == << <<5, 5, 2, 7>>, <<6, 5, 2, 8>> >>
\* A line that climbs from one z level to the next ones.
Ramp == << <<0, 0, 2, 0>>, <<30, 0, 4, 10>>, <<30, 30, 6, 20>> >>
\* A triangle wide enough for the area tolerance and too flat for the sine one.
Thin == << <<0, 0, 2, 0>>, <<2700, 5, 2, 50>>, <<1, 0, 2, 100>> >>
\* Three points in line, straight up.
Column == << <<0, 0, 2, 0>>, <<0, 0, 3, 5>>, <<0, 0, 4, 10>> >>
\* A line that loses one point in the first pass and another in the second.
Kink ==
    << <<-10, 0, 7, 0>>, <<0, 0, 7, 5>>, <<1, 1, 7, 6>>, <<1, 0, 7, 7>>,
       <<11, 10, 7, 15>> >>

SampleLines == { Straight, Square, Speck, Blob, Dot, Ramp, Thin, Column, Kink }

\* The lists of at most n sample polylines.
RECURSIVE ListsUpTo(_)
ListsUpTo(n) ==
    IF n <= 0 THEN { <<>> }
    ELSE LET shorter == ListsUpTo(n - 1)
         IN shorter \cup { Append(l, x) : l \in shorter, x \in SampleLines }

\* parse_gcode_file has returned the lists of one or two tools (the second with
\* at most one polyline); its locals are no longer live and are left as they
\* start.
InitLines ==
    /\ gcode = <<>>
    /\ include = <<0, 1>>
    /\ ignore_support = FALSE
    /\ ignore_infill = FALSE
    /\ limit = 0
    /\ gcode_line = EndOfFile
    /\ lineno = 0
    /\ pc = "parsed"
    /\ lines = [i \in 1..2 |-> << <<>> >>]
    /\ cur_lines = 1
    /\ max_used_core = 0
    /\ current_pt = <<0, 0, 0, 0>>
    /\ e_change = <<0, 0>>
    /\ printcore = 0
    /\ skipping_type = FALSE
    /\ relative_pos = <<0, 0, 0, 0>>
    /\ op = "take"
    /\ extruder_op = "take"
    /\ cur_type = ""
    /\ extruder_lines \in
          { <<first>> : first \in ListsUpTo(MaxPolylines) }
             \cup { <<first, second>> : first \in ListsUpTo(MaxPolylines),
                                       second \in ListsUpTo(1) }
    /\ written = Nothing
    /\ returned = Nothing
    /\ simplified = <<>>
    /\ z_levels = <<>>
    /\ highest_selected = 0
    /\ shared_mode = "take"
    /\ e_only = ""
    /\ retractions = <<{}, {}>>
    /\ runs = {}
    /\ last_move = NoMove
    /\ cache = NoEntries
    /\ worker = <<>>
    /\ loop = Nothing
    /\ Offline

NextLines == JsonFinish \/ ObjFinish

SpecLines == InitLines /\ [][NextLines]_vars

(***************************************************************************)
(* The conversions of one input: a travel move to the corner of a square   *)
(* with 10 mm sides (150 units) at z = 0.2 mm (3 units) and four moves     *)
(* around it that extrude 1 mm each, as it stands or with one line that    *)
(* does not move the head put in.                                          *)
(***************************************************************************)
SquareText ==
    << Line("G0", <<Param("X", 0), Param("Y", 0), Param("Z", 3)>>),
       Line("G1", <<Param("X", 150), Param("Y", 0), Param("Z", 3), Param("E", 15)>>),
       Line("G1", <<Param("X", 150), Param("Y", 150), Param("Z", 3), Param("E", 30)>>),
       Line("G1", <<Param("X", 0), Param("Y", 150), Param("Z", 3), Param("E", 45)>>),
       Line("G1", <<Param("X", 0), Param("Y", 0), Param("Z", 3), Param("E", 60)>>) >>

StillLines == { Line("", <<>>), Line("M104", <<Param("S", 200)>>), TypeLine("WALL-OUTER") }

SquareTexts ==
    { SquareText }
        \cup { SubSeq(SquareText, 1, n) \o <<still>> \o SubSeq(SquareText, n + 1, 5) :
                  n \in 0..5, still \in StillLines }

\* The calls that include core 0 first, as the default include does.
SquareCalls == ({ <<0>> } \X BOOLEAN \X BOOLEAN) \cup { << <<0, 1>>, FALSE, FALSE >> }

InitSquare == Called(SquareTexts, 0, SquareCalls) /\ worker = <<>> /\ loop = Nothing /\ Offline

NextSquare ==
    \/ BeginParse
    \/ TypeComment
    \/ BlankLine
    \/ Move
    \/ OtherCommand
    \/ EndOfInput
    \/ JsonFinish
    \/ ObjFinish

SpecSquare == InitSquare /\ [][NextSquare]_vars

(***************************************************************************)
(* Calls of gcode_to_obj that run side by side as threads of one process.  *)
(* Each thread has the local variables of its call; the threads share the  *)
(* lru_cache of create_faces and nothing else (the module has no global    *)
(* variable).  A thread starts at the second loop of lines 429-431 with    *)
(* the simplified polylines of its input in lines.  What lru_cache returns *)
(* for an n that has an entry is the stored array itself.                  *)
(***************************************************************************)
Workers == {1, 2}

\* The lists of up to n polylines a thread works on.
RECURSIVE WorkLists(_)
WorkLists(n) ==
    IF n = 0 THEN { <<>> }
    ELSE WorkLists(n - 1)
            \cup { Append(ls, line) : ls \in { l \in WorkLists(n - 1) : Len(l) = n - 1 },
                                      line \in {Straight, Ramp} }

InitPair ==
    /\ Called({<<>>}, 0, { << <<0>>, FALSE, FALSE >> })
    /\ loop = Nothing
    /\ Offline
    /\ worker \in [Workers ->
           { [lines |-> ls, at |-> 1, facets |-> <<>>, offset |-> 0,
              pc |-> IF ls = <<>> THEN "concatenate" ELSE "create_faces",
              returned |-> Nothing] : ls \in WorkLists(MaxSolids) }]

\* create_faces(len(line)): gives the entry of the cache, made now if there is none.
CreateFaces(w) ==
    /\ worker[w].pc = "create_faces"
    /\ cache' = CacheAfter(cache, << worker[w].lines[worker[w].at] >>)
    /\ worker' = [worker EXCEPT ![w].pc = "add"]
    /\ UNCHANGED << args, loop, server, gcode_line, lineno, pc, parser, result,
                    history >>

\* An addition in place (+=), which writes the sum into the array the cache holds.
Stored_InPlace(template, offset) == Shifted(template, offset)

\* The array the cache holds after "create_faces(len(line)) + offset": the sum
\* is a new array.
Stored(template, offset) == template

\* facets.append(... + offset); offset += len(line)*4
AddOffset(w) ==
    /\ worker[w].pc = "add"
    /\ LET me == worker[w]
           n == Len(me.lines[me.at])
       IN /\ cache' = [cache EXCEPT ![n] = Stored(cache[n], me.offset)]
          /\ worker' = [worker EXCEPT
                ![w].facets = Append(me.facets, Shifted(cache[n], me.offset)),
                ![w].offset = me.offset + n * 4,
                ![w].at = me.at + 1,
                ![w].pc = IF me.at = Len(me.lines) THEN "concatenate" ELSE "create_faces"]
    /\ UNCHANGED << args, loop, server, gcode_line, lineno, pc, parser, result,
                    history >>

\* Lines 434-444: the empty text, or the mesh of the concatenated arrays.
Concatenate(w) ==
    /\ worker[w].pc = "concatenate"
    /\ LET me == worker[w]
       IN worker' = [worker EXCEPT
             ![w].pc = "done",
             ![w].returned =
                 IF me.facets = <<>> THEN EmptyText
                 ELSE [kind |-> "obj", vertices |-> me.offset,
                       faces |-> Flatten(me.facets)]]
    /\ UNCHANGED << args, cache, loop, server, gcode_line, lineno, pc, parser, result,
                    history >>

NextPair ==
    \/ \E w \in Workers : CreateFaces(w)
    \/ \E w \in Workers : AddOffset(w)
    \/ \E w \in Workers : Concatenate(w)

SpecPair == InitPair /\ [][NextPair]_vars

(***************************************************************************)
(* The loop of simplify_lines (lines 116-134) on one polyline, a round at  *)
(* a time.  The polyline is a sample, or has up to MaxPoints points on a   *)
(* grid that mixes steps below and above the tolerances; a point may       *)
(* repeat (a zero edge, whose sine is nan).  E grows by 10 from point to   *)
(* point.                                                                  *)
(***************************************************************************)
GridPoints == { <<x, y>> : x \in {0, 1, 30}, y \in {0, 30} }

\* The polylines of exactly n points on the grid.
RECURSIVE GridLines(_)
GridLines(n) ==
    IF n = 0 THEN { <<>> }
    ELSE { Append(line, << p[1], p[2], 3, 10 * (n - 1) >>) :
              line \in GridLines(n - 1), p \in GridPoints }

LoopInputs ==
    { line \in SampleLines : Len(line) >= 2 }
        \cup UNION { GridLines(n) : n \in 2..MaxPoints }

InitLoop ==
    /\ Called({<<>>}, 0, { << <<0>>, FALSE, FALSE >> })
    /\ worker = <<>>
    /\ Offline
    /\ \E line \in LoopInputs :
          loop = [given |-> line, line |-> line, is_cycle |-> IsCycle(line),
                  pc |-> "while", remove |-> FALSE, rounds |-> 0]

\* Line 117: the polyline has 2 points, or is a closed loop and has 3.
AtMinimum == Len(loop.line) = 2 \/ (loop.is_cycle /\ Len(loop.line) = 3)

\* Lines 117-121: break, after marking a polyline that is too short.
BreakAtMinimum ==
    /\ loop.pc = "while"
    /\ AtMinimum
    /\ loop' = [loop EXCEPT !.pc = "break", !.remove = TooShort(loop.line)]
    /\ UNCHANGED << args, cache, worker, server, gcode_line, lineno, pc, parser, result,
                    history >>

\* Line 130: break when every interior point is kept.
BreakAllKept ==
    /\ loop.pc = "while"
    /\ ~AtMinimum
    /\ KeepMask(loop.line) = 1..Len(loop.line)
    /\ loop' = [loop EXCEPT !.pc = "break"]
    /\ UNCHANGED << args, cache, worker, server, gcode_line, lineno, pc, parser, result,
                    history >>

\* Lines 133-134: line = line[keep], and round again.
Round ==
    /\ loop.pc = "while"
    /\ ~AtMinimum
    /\ KeepMask(loop.line) # 1..Len(loop.line)
    /\ loop' = [loop EXCEPT !.line = Masked(loop.line, KeepMask(loop.line), 1),
                            !.rounds = loop.rounds + 1]
    /\ UNCHANGED << args, cache, worker, server, gcode_line, lineno, pc, parser, result,
                    history >>

NextLoop ==
    \/ BreakAtMinimum
    \/ BreakAllKept
    \/ Round

SpecLoop == InitLoop /\ [][NextLoop]_vars
\* The loop runs on: a round that can be taken is taken.
SpecLoopRuns == SpecLoop /\ WF_vars(NextLoop)

(***************************************************************************)
(* Requests for the converted model of one printer that is printing        *)
(* (src/model/__init__.py).  Each request runs generate_model in a process *)
(* of the pool (run_async), so the requests share the files on disk and    *)
(* nothing else.  All requests ask for the same output path.  A file is    *)
(* "newer" when it exists with a modification time after the job's start:  *)
(* that is what is_up_to_date tests while the printer prints.  Whether the *)
(* converter raises on the job's gcode is a property of that gcode.        *)
(***************************************************************************)
Requests == 1..MaxRequests

InitOutput ==
    /\ Called({<<>>}, 0, { << <<0>>, FALSE, FALSE >> })
    /\ worker = <<>>
    /\ loop = Nothing
    /\ streams = Nothing
    /\ playlist = FALSE
    /\ transcoders = {}
    /\ viewer = <<>>
    /\ gcode_file \in [newer : BOOLEAN, raises : BOOLEAN]
    /\ output_file \in { [holds |-> "missing", newer |-> FALSE],
                          [holds |-> "old", newer |-> FALSE] }
    /\ request = [r \in Requests |->
                    [pc |-> "update_gcode", updated |-> FALSE, converted |-> FALSE,
                     found |-> "unread"]]

others == << args, gcode_line, lineno, pc, parser, result, history, cache, worker, loop,
            streams, playlist, transcoders, viewer >>

\* update_gcode: download and write the gcode unless the file is up to date.
UpdateGcode(r) ==
    /\ request[r].pc = "update_gcode"
    /\ gcode_file' = [gcode_file EXCEPT !.newer = TRUE]
    /\ request' = [request EXCEPT ![r].pc = "update_output",
                                  ![r].updated = ~gcode_file.newer]
    /\ UNCHANGED << others, output_file >>

\* Line 101 false: the name is returned and no conversion is run.
ReturnUpToDate(r) ==
    /\ request[r].pc = "update_output"
    /\ ~(request[r].updated \/ ~output_file.newer)
    /\ request' = [request EXCEPT ![r].pc = "returned", ![r].found = output_file.holds]
    /\ UNCHANGED << others, gcode_file, output_file >>

\* Line 103: open(output_path, "w") creates or empties the file.
OpenOutput(r) ==
    /\ request[r].pc = "update_output"
    /\ request[r].updated \/ ~output_file.newer
    /\ output_file' = [holds |-> "empty", newer |-> TRUE]
    /\ request' = [request EXCEPT ![r].pc = "convert"]
    /\ UNCHANGED << others, gcode_file >>

\* Line 104: the converter raises before it writes; the with block closes the file.
ConvertRaises(r) ==
    /\ request[r].pc = "convert"
    /\ gcode_file.raises
    /\ request' = [request EXCEPT ![r].pc = "raised"]
    /\ UNCHANGED << others, gcode_file, output_file >>

\* Line 104: the converter writes; part of the text has reached the file.
WritePart(r) ==
    /\ request[r].pc = "convert"
    /\ ~gcode_file.raises
    /\ output_file' = [holds |-> "partial", newer |-> TRUE]
    /\ request' = [request EXCEPT ![r].pc = "write"]
    /\ UNCHANGED << others, gcode_file >>

\* Lines 104-107: the rest is written and the file closed.  The file holds the
\* whole text unless another process has the same file open for writing.
WriteRest(r) ==
    /\ request[r].pc = "write"
    /\ output_file' =
          [holds |-> IF \E q \in Requests \ {r} : request[q].pc \in {"convert", "write"}
                     THEN "partial" ELSE "complete",
           newer |-> TRUE]
    /\ request' = [request EXCEPT ![r].pc = "returned", ![r].converted = TRUE,
                                  ![r].found = output_file'.holds]
    /\ UNCHANGED << others, gcode_file >>

NextOutput ==
    \/ \E r \in Requests : UpdateGcode(r)
    \/ \E r \in Requests : ReturnUpToDate(r)
    \/ \E r \in Requests : OpenOutput(r)
    \/ \E r \in Requests : ConvertRaises(r)
    \/ \E r \in Requests : WritePart(r)
    \/ \E r \in Requests : WriteRest(r)

SpecOutput == InitOutput /\ [][NextOutput]_vars

(***************************************************************************)
(* Requests for the video stream of one printer (src/video/__init__.py).   *)
(* The handlers run on one event loop, so a handler runs undisturbed from  *)
(* one await to the next; os.makedirs and os.remove are the plain calls    *)
(* (no aiofiles).  The entry of the table is [proc, time]: proc is 0 for   *)
(* None and otherwise the number of the request that started the process;  *)
(* of the time only whether terminate_video_streams finds it stale is      *)
(* kept.  The transcoder writes the playlist some time after it started.   *)
(***************************************************************************)
Viewers == 1..MaxViewers

NoStream == [present |-> FALSE, proc |-> 0, stale |-> FALSE]
Arriving == [pc |-> "get", playlist |-> FALSE, recorded |-> FALSE]

InitVideo ==
    /\ Called({<<>>}, 0, { << <<0>>, FALSE, FALSE >> })
    /\ worker = <<>>
    /\ loop = Nothing
    /\ gcode_file = Nothing
    /\ output_file = Nothing
    /\ request = <<>>
    /\ streams = NoStream
    /\ playlist \in BOOLEAN
    /\ transcoders = {}
    /\ viewer = [v \in Viewers |-> Arriving]

rest == << args, gcode_line, lineno, pc, parser, result, history, cache, worker, loop,
          gcode_file, output_file, request >>

\* Lines 118-123 and start_streaming up to its first await: the entry is made
\* with no process, the old playlist removed and the transcoder started.
StartStreaming(v) ==
    /\ viewer[v].pc = "get"
    /\ ~streams.present
    /\ streams' = [present |-> TRUE, proc |-> 0, stale |-> FALSE]
    /\ playlist' = FALSE
    /\ transcoders' = transcoders \cup {v}
    /\ viewer' = [viewer EXCEPT ![v].pc = "start_streaming"]
    /\ UNCHANGED rest

\* Lines 125-133: the name is in the table.  The entry is a list and never
\* None, so the loop of line 126 does not wait; the time is renewed and the
\* playlist served as it is found.
ServeFromTable(v) ==
    /\ viewer[v].pc = "get"
    /\ streams.present
    /\ streams' = [streams EXCEPT !.stale = FALSE]
    /\ viewer' = [viewer EXCEPT ![v] = [pc |-> "served", playlist |-> playlist,
                                        recorded |-> streams.proc # 0]]
    /\ UNCHANGED << rest, playlist, transcoders >>

\* The transcoder writes the playlist.
PlaylistWritten ==
    /\ transcoders # {}
    /\ ~playlist
    /\ playlist' = TRUE
    /\ UNCHANGED << rest, streams, transcoders, viewer >>

\* Lines 80-84 and 124, 133: the playlist is there; the process is recorded
\* and the playlist served.
Started(v) ==
    /\ viewer[v].pc = "start_streaming"
    /\ playlist
    /\ streams' = [present |-> TRUE, proc |-> v, stale |-> FALSE]
    /\ viewer' = [viewer EXCEPT ![v] = [pc |-> "served", playlist |-> TRUE,
                                        recorded |-> TRUE]]
    /\ UNCHANGED << rest, playlist, transcoders >>

\* The player asks for the playlist again.
Again(v) ==
    /\ viewer[v].pc = "served"
    /\ viewer' = [viewer EXCEPT ![v] = Arriving]
    /\ UNCHANGED << rest, streams, playlist, transcoders >>

\* Time goes by without a request: the entry's time is now before the limit.
GrowStale ==
    /\ streams.present
    /\ ~streams.stale
    /\ streams' = [streams EXCEPT !.stale = TRUE]
    /\ UNCHANGED << rest, playlist, transcoders, viewer >>

\* terminate_video_streams on a stale entry with a process.  (On a stale entry
\* without one, None.terminate() raises and the entry stays.)
Terminate ==
    /\ streams.present
    /\ streams.stale
    /\ streams.proc # 0
    /\ transcoders' = transcoders \ {streams.proc}
    /\ streams' = NoStream
    /\ UNCHANGED << rest, playlist, viewer >>

NextVideo ==
    \/ \E v \in Viewers : StartStreaming(v)
    \/ \E v \in Viewers : ServeFromTable(v)
    \/ PlaylistWritten
    \/ \E v \in Viewers : Started(v)
    \/ \E v \in Viewers : Again(v)
    \/ GrowStale
    \/ Terminate

SpecVideo == InitVideo /\ [][NextVideo]_vars

(***************************************************************************)
(* Properties                                                              *)
(***************************************************************************)
Last(seq) == seq[Len(seq)]

\* The step reads a G0/G1 line and does not raise.
MoveStep == pc = "parse" /\ gcode_line.command \in {"G0", "G1"} /\ pc' = "parse"

\* The step adds a point to a line of buffer i that already had one: a segment.
AddsSegment(i) ==
    /\ Len(lines'[i]) = Len(lines[i])
    /\ Len(Last(lines[i])) >= 1
    /\ Len(Last(lines'[i])) = Len(Last(lines[i])) + 1

\* The type the last ";TYPE:" comment named is one the call's flags exclude.
ExcludedType(type) ==
    \/ ignore_support /\ type \in {"SKIRT", "SUPPORT", "SUPPORT-INTERFACE", "PRIME-TOWER"}
    \/ ignore_infill /\ type = "FILL"

\* The next line of the input is a G0/G1/G92 with an axis parameter that is no number.
MalformedLine ==
    /\ gcode_line.command \in {"G0", "G1", "G92"}
    /\ \E k \in 1..Len(gcode_line.parameters) :
         /\ gcode_line.parameters[k].letter \in {"X", "Y", "Z", "E"}
         /\ ~gcode_line.parameters[k].ok

\* C1: a linear move changes only the buffer at the position the active core has
\* in include, whatever the order of include and also before the first
\* tool-select command (when the active core is the default core 0).
C1_MoveFillsActiveCore ==
    [][\A i \in 1..Len(include) : lines'[i] # lines[i] => include[i] = printcore]_vars

C3_ClosedLinesHaveTwoPoints ==
    /\ \A i \in 1..Len(lines) : \A j \in 1..(Len(lines[i]) - 1) : Len(lines[i][j]) >= 2
    /\ \A k \in 1..Len(extruder_lines) :
         \A j \in 1..Len(extruder_lines[k]) : Len(extruder_lines[k][j]) >= 2

\* C3's case: a line was closed, a shorter one was left open, and the output
\* holds the closed one.
C3_Witness ==
    /\ pc = "parsed"
    /\ \E i \in 1..Len(lines) : Len(lines[i]) >= 2 /\ Len(Last(lines[i])) = 1
    /\ \E k \in 1..Len(extruder_lines) : extruder_lines[k] # <<>>

\* C4: while a retraction of an included core is not made up for (the positive
\* E deltas of that core's moves since it do not exceed its size), a move of
\* that core adds no segment: the last line of every buffer it touches has at
\* most the single point it was reseeded with.
C4_Ratchet ==
    [][ ( /\ MoveStep
          /\ Included(include, printcore)
          /\ retractions'[IncludeIndex(include, printcore)] # {} )
        => \A i \in 1..Len(lines) : lines'[i] = lines[i] \/ Len(Last(lines'[i])) <= 1 ]_vars

\* C4's case: the positive deltas since a retraction sum to exactly its size, and
\* the line was reseeded with one point.
C4_Witness ==
    /\ pc = "parse"
    /\ \E i \in 1..Len(include) :
         /\ \E x \in retractions[i] : x.gained = x.size
         /\ Len(Last(lines[i])) = 1

\* C5 (its last clause): a move adds a segment to a line only when the linear
\* move before it in the input was made with the same core active and was
\* recorded, so that the segment starts where that move ended.
C5_NoSegmentAcrossGap ==
    [][ (MoveStep /\ \E i \in 1..Len(lines) : AddsSegment(i))
        => (last_move.core = printcore /\ ~last_move.skipped) ]_vars

\* C6: G92 leaves the physical coordinate of every axis unchanged.
C6_G92KeepsPhysical ==
    [][ (pc = "parse" /\ gcode_line.command = "G92" /\ pc' = "parse")
        => Physical(current_pt', relative_pos') = Physical(current_pt, relative_pos) ]_vars

\* C7: a move read after a ";TYPE:" comment naming an excluded class (and
\* before the next such comment) adds no point to any buffer, while it moves the
\* logical position and the active core's accumulator as any move does, and a
\* G92 there moves the offsets as any G92 does; a ";TYPE:" comment naming
\* another class clears the skip flag.
C7_SkippedRegion ==
    [][ /\ (MoveStep /\ ExcludedType(cur_type)) =>
              /\ \A i \in 1..Len(lines) : \A j \in 1..Len(lines'[i]) :
                    \/ lines'[i][j] = <<>>
                    \/ \E k \in 1..Len(lines[i]) : lines[i][k] = lines'[i][j]
              /\ current_pt' =
                    UpdatePoint(current_pt, gcode_line.parameters, op, extruder_op)
              /\ relative_pos' = relative_pos
              /\ Included(include, printcore) =>
                    LET pci == IncludeIndex(include, printcore)
                    IN e_change'[pci] =
                          (IF e_change[pci] <= 0 THEN e_change[pci] ELSE 0)
                              + current_pt'[4] - current_pt[4]
        /\ ( /\ pc = "parse"
             /\ gcode_line.command = "G92"
             /\ ExcludedType(cur_type)
             /\ pc' = "parse" ) =>
              << current_pt', relative_pos' >> =
                  SetPosition(current_pt, relative_pos, gcode_line.parameters)
        /\ ( /\ pc = "parse"
             /\ gcode_line.command = ";TYPE:"
             /\ ~ExcludedType(gcode_line.cur_type) ) => ~skipping_type' ]_vars

\* C7's case: a move of an included core was skipped and changed the position.
C7_Witness ==
    /\ pc = "parse"
    /\ ExcludedType(cur_type)
    /\ last_move.skipped
    /\ Included(include, last_move.core)
    /\ current_pt # <<0, 0, 0, 0>>
    /\ \E i \in 1..Len(e_change) : e_change[i] # 0

\* C8: M82 and M83 change nothing but the E operator, and a move reads its X, Y
\* and Z parameters under the mode the last G90/G91 set.
C8_EOnlyMode ==
    [][ /\ (pc = "parse" /\ gcode_line.command \in {"M82", "M83"}) =>
              /\ extruder_op' = (IF gcode_line.command = "M83" THEN "add" ELSE "take")
              /\ UNCHANGED << op, current_pt, relative_pos, printcore, cur_lines,
                              max_used_core, lines, e_change, skipping_type >>
        /\ MoveStep =>
              \A k \in 1..Len(gcode_line.parameters) :
                 LET p == gcode_line.parameters[k]
                 IN ( /\ p.letter \in {"X", "Y", "Z"}
                      /\ \A j \in 1..Len(gcode_line.parameters) :
                            j # k => gcode_line.parameters[j].letter # p.letter )
                    => current_pt'[CoordFind(p.letter)] =
                          (IF shared_mode = "add"
                           THEN current_pt[CoordFind(p.letter)] + p.value
                           ELSE p.value) ]_vars

\* C8's case: the E mode was set apart from the shared mode and a move was made.
C8_Witness ==
    /\ pc = "parse"
    /\ extruder_op # shared_mode
    /\ last_move.core >= 0
    /\ current_pt[1] # 0
    /\ current_pt[4] # 0

\* C9: a run of moves in relative E mode (no G92 and no change of the E mode
\* in between) whose E parameters sum to zero leaves the logical E where the
\* run found it.
C9_ZeroSumRun == \A r \in runs : r.sum = 0 => current_pt[4] = r.start

\* C9's case: a run of at least two moves that changed E and summed to zero.
C9_Witness ==
    \E r \in runs :
        /\ r.sum = 0
        /\ r.moves >= 2
        /\ \E q \in runs : q.start # r.start

\* C10 as stated: whenever the input holds a malformed axis parameter, the
\* call produces nothing.
C10_MalformedNeverProduces ==
    MalformedLine => pc \in {"call", "parse", "error"}
                     /\ written = Nothing /\ returned = Nothing

\* C10 as amended: for a non-empty include, reading a line with a malformed
\* axis parameter raises, and the call then has written and returned nothing.
C10_MalformedAborts ==
    /\ [](Len(include) # 0 /\ MalformedLine =>
            pc \in {"call", "parse", "error"}
            /\ written = Nothing /\ returned = Nothing)
    /\ [][(pc = "parse" /\ MalformedLine) => pc' = "error"]_vars

\* C10's case: the call raised on a malformed parameter after valid lines that
\* recorded points.
C10_Witness ==
    /\ pc = "error"
    /\ MalformedLine
    /\ lineno >= 2
    /\ \E i \in 1..Len(lines) : Last(lines[i]) # <<>>

\* The command words the loop has a branch for (the tool-select words T0..T6
\* among them), the comment that names a type, and the end of the input.
KnownWords ==
    { "G0", "G1", "G90", "G91", "G92", "M82", "M83", ";TYPE:", "<EOF>",
      "T0", "T1", "T2", "T3", "T4", "T5", "T6" }

\* The parameters whose first letter names an axis, in order.
AxisParameters(parameters) ==
    LET IsAxis(p) == p.letter \in {"X", "Y", "Z", "E"}
    IN SelectSeq(parameters, IsAxis)

\* C11: a line with an unknown command word raises nothing and changes nothing
\* of the interpreter's state; a G0/G1/G92 line raises only for a malformed axis
\* parameter and moves the position and the offsets as the same line without its
\* non-axis parameters would; a tool-select command for a core outside include
\* raises nothing and changes no buffer.
C11_IgnoredSilently ==
    [][ /\ (pc = "parse" /\ gcode_line.command \notin KnownWords) =>
              /\ pc' = "parse"
              /\ UNCHANGED << current_pt, relative_pos, op, extruder_op, printcore,
                              e_change, lines, cur_lines, max_used_core,
                              skipping_type >>
        /\ (pc = "parse" /\ gcode_line.command \in {"G0", "G1", "G92"}) =>
              LET axes == AxisParameters(gcode_line.parameters)
              IN IF \A k \in 1..Len(axes) : axes[k].ok
                 THEN /\ pc' = "parse"
                      /\ gcode_line.command # "G92" =>
                            /\ current_pt' = UpdatePoint(current_pt, axes, op, extruder_op)
                            /\ relative_pos' = relative_pos
                      /\ gcode_line.command = "G92" =>
                            << current_pt', relative_pos' >> =
                                SetPosition(current_pt, relative_pos, axes)
                      /\ UNCHANGED << op, extruder_op, printcore, cur_lines >>
                 ELSE pc' = "error"
        /\ ( /\ pc = "parse"
             /\ gcode_line.command \in {"T0", "T1", "T2", "T3", "T4", "T5", "T6"}
             /\ \A i \in 1..Len(include) : "T" \o ToString(include[i]) # gcode_line.command )
           => /\ pc' = "parse"
              /\ UNCHANGED << lines, cur_lines, max_used_core, current_pt,
                              relative_pos, op, extruder_op, e_change >> ]_vars

\* C11's case: with a core outside include selected, a move carrying a
\* parameter that is no number behind a letter that is no axis was read and
\* moved the position.
C11_Witness ==
    /\ pc = "parse"
    /\ include # <<>>
    /\ printcore # 0
    /\ ~Included(include, printcore)
    /\ current_pt = <<2, 0, 0, 3>>

JsonProduced == pc = "done" /\ "json" \in {written.kind, returned.kind}

\* The z of the first point of every simplified line, and the z of every point.
FirstZValues ==
    UNION { { simplified[i][j][1][3] : j \in 1..Len(simplified[i]) } :
               i \in 1..Len(simplified) }
AllZValues ==
    UNION { UNION { { simplified[i][j][n][3] : n \in 1..Len(simplified[i][j]) } :
                       j \in 1..Len(simplified[i]) } :
               i \in 1..Len(simplified) }

\* C13 as stated: the levels are strictly increasing and are exactly the z
\* values of the points of the simplified lines of all tools.
C13_LevelsAreAllZ ==
    JsonProduced =>
        /\ \A k \in 1..(Len(z_levels) - 1) : z_levels[k] < z_levels[k + 1]
        /\ { z_levels[k] : k \in 1..Len(z_levels) } = AllZValues

\* C13 as amended: the levels are strictly increasing and are exactly the z
\* values of the first points of the simplified lines of all tools.
C13_LevelsAreFirstZ ==
    JsonProduced =>
        /\ \A k \in 1..(Len(z_levels) - 1) : z_levels[k] < z_levels[k + 1]
        /\ { z_levels[k] : k \in 1..Len(z_levels) } = FirstZValues

\* C13's case: two tools on different levels, and a line that reaches a z
\* that is not the z of its first point.
C13_Witness ==
    /\ JsonProduced
    /\ Len(simplified) = 2
    /\ Len(z_levels) >= 2
    /\ \E k \in 1..Len(z_levels) :
          \A j \in 1..Len(simplified[1]) : simplified[1][j][1][3] # z_levels[k]
    /\ AllZValues # FirstZValues

\* The layer document that gcode_to_json produced.
Document == IF written.kind = "json" THEN written ELSE returned

\* The lines of the list ls whose first point lies at height z, in order.
LinesAt(ls, z) ==
    LET StartsAt(line) == line[1][3] = z
    IN SelectSeq(ls, StartsAt)

\* The (x, y) columns of a line of the tool at output position i; the lines at
\* position 2 (Python's 1) are moved by extruder_separation in x.
Projected(line, i) ==
    [n \in 1..Len(line) |->
        << IF i = 2 THEN line[n][1] + 18 * PerMm ELSE line[n][1], line[n][2] >>]

\* C14: the document has one list of layers per output tool and one layer per
\* level; the lines of the layer at level z of a tool are the projections of
\* that tool's simplified lines whose first point has that z, in the order of
\* the tool's list; every simplified line has a level, so none is left out.
C14_EveryLineInItsLayer ==
    JsonProduced =>
        /\ Len(Document.layers) = Len(simplified)
        /\ \A i \in 1..Len(simplified) :
              /\ Len(Document.layers[i]) = Len(z_levels)
              /\ \A k \in 1..Len(z_levels) :
                    LET here == LinesAt(simplified[i], z_levels[k])
                    IN Document.layers[i][k].lines =
                          [n \in 1..Len(here) |-> Projected(here[n], i)]
              /\ \A j \in 1..Len(simplified[i]) :
                    Cardinality({ k \in 1..Len(z_levels) :
                                    z_levels[k] = simplified[i][j][1][3] }) = 1

\* C14's case: a layer that holds two lines of one tool, a layer that holds
\* none of a tool's lines, and a second tool with a line.
C14_Witness ==
    /\ JsonProduced
    /\ Len(simplified) = 2
    /\ simplified[2] # <<>>
    /\ \E i \in 1..2 : \E k \in 1..Len(z_levels) :
          Len(Document.layers[i][k].lines) = 2
    /\ \E i \in 1..2 : \E k \in 1..Len(z_levels) :
          Document.layers[i][k].lines = <<>>

\* The sum of the heights of the first k layers of a tool's layer list.
RECURSIVE HeightsSum(_, _)
HeightsSum(layers, k) ==
    IF k = 0 THEN 0 ELSE layers[k].height + HeightsSum(layers, k - 1)

SquarePath ==
    << <<0, 0, 3, 0>>, <<150, 0, 3, 15>>, <<150, 150, 3, 30>>, <<0, 150, 3, 45>>,
       <<0, 0, 3, 60>> >>

\* C15: the conversion of the square never raises; parse_gcode_file returns
\* for tool 0 one line of 5 points that starts at the travel move's destination,
\* simplification keeps all of them, and the layer document holds for one tool
\* one layer, 0.2 mm high (3 units) with its centre at 0.1 mm (z2, twice the
\* centre, is 3 units), with one line of 5 points from (0, 0) round to (0, 0).
C15_SquareIsOneLoop ==
    /\ pc # "error"
    /\ pc \in {"parsed", "done"} => extruder_lines = << <<SquarePath>> >>
    /\ pc = "done" => simplified = << <<SquarePath>> >>
    /\ JsonProduced =>
          Document.layers =
             << << [z2 |-> 3, height |-> 3,
                    lines |-> << << <<0, 0>>, <<150, 0>>, <<150, 150>>, <<0, 150>>,
                                    <<0, 0>> >> >>] >> >>

\* C15's case: the square as it stands was converted to the layer document.
C15_Witness ==
    /\ JsonProduced
    /\ gcode = SquareText
    /\ Len(Document.layers[1][1].lines[1]) = 5

\* simplify_lines has been applied to every tool's list.
Simplified == pc \in {"done", "error"} /\ Len(simplified) > 0

\* C17: simplify_lines is idempotent: applied to its own output, with the same
\* tolerances, it removes no further point and no further polyline.
C17_Idempotent ==
    Simplified =>
        \A i \in 1..Len(simplified) : simplify_lines(simplified[i]) = simplified[i]

\* C17's case: a list whose first polyline lost points in two rounds and whose
\* second polyline was removed.
C17_Witness ==
    /\ Simplified
    /\ \E i \in 1..Len(simplified) :
          /\ extruder_lines[i] = << Kink, Dot >>
          /\ simplified[i] = << << Kink[1], Kink[4], Kink[5] >> >>
          /\ SimplifyLine_OnePass(Kink, FALSE).line # simplified[i][1]

\* The points of a polyline lie on one straight line in space.
Collinear(line) ==
    \A j, k \in 1..Len(line) :
        Cross(Sub3(line[j], line[1]), Sub3(line[k], line[1])) = << 0, 0, 0 >>

\* The position in simplify_lines(ls) of the polyline that stands at position j
\* of ls, or 0 when it has been removed.
PlaceAfter(ls, j) ==
    LET before == Len(simplify_lines(SubSeq(ls, 1, j - 1)))
        upto == Len(simplify_lines(SubSeq(ls, 1, j)))
    IN IF upto = before THEN 0 ELSE upto

\* C18: every polyline of 3 or more exactly collinear points is simplified to
\* exactly its two endpoints: it stays in the list, with its first and its
\* last point and nothing else.
C18_CollinearToEndpoints ==
    Simplified =>
        \A i \in 1..Len(simplified) : \A j \in 1..Len(extruder_lines[i]) :
            LET line == extruder_lines[i][j]
                place == PlaceAfter(extruder_lines[i], j)
            IN (Len(line) >= 3 /\ Collinear(line)) =>
                  /\ place # 0
                  /\ simplified[i][place] = << line[1], line[Len(line)] >>

\* C19: after simplify_lines every polyline left in the list has at least 2
\* points, every closed loop (first and last XY equal) left in the list has at
\* least 3 points, and a polyline that is left still starts at its first point
\* and ends at its last point.
C19_LoopsKeepThreePoints ==
    Simplified =>
        \A i \in 1..Len(simplified) :
            /\ \A k \in 1..Len(simplified[i]) :
                  /\ Len(simplified[i][k]) >= 2
                  /\ IsCycle(simplified[i][k]) => Len(simplified[i][k]) >= 3
            /\ \A j \in 1..Len(extruder_lines[i]) :
                  LET line == extruder_lines[i][j]
                      place == PlaceAfter(extruder_lines[i], j)
                  IN place # 0 =>
                        /\ simplified[i][place][1] = line[1]
                        /\ simplified[i][place][Len(simplified[i][place])] = line[Len(line)]

\* Two points closer in space than the square root of the area tolerance.
CloserInSpace(p, q) == LengthScale * Norm2(Sub3(q, p)) < PerMm * PerMm

\* C20: after simplify_lines no 2-point polyline remains whose two points are
\* closer in space than the square root of the area tolerance, no polyline of
\* 0 or 1 points remains, and only such polylines are removed from the list: a
\* polyline that keeps 3 or more points is never removed.
C20_OnlyShortLinesRemoved ==
    Simplified =>
        \A i \in 1..Len(simplified) :
            /\ \A k \in 1..Len(simplified[i]) :
                  LET line == simplified[i][k]
                  IN /\ Len(line) >= 2
                     /\ Len(line) = 2 => ~CloserInSpace(line[1], line[2])
            /\ \A j \in 1..Len(extruder_lines[i]) :
                  LET line == extruder_lines[i][j]
                  IN PlaceAfter(extruder_lines[i], j) = 0 =>
                        \/ Len(line) < 2
                        \/ LET left == SimplifyLine(line, IsCycle(line)).line
                           IN Len(left) = 2 /\ CloserInSpace(left[1], left[2])

\* The triangles of one solid per polyline of ls: 8n - 4 for a polyline of n points.
RECURSIVE SolidFaces(_)
SolidFaces(ls) == IF ls = <<>> THEN 0 ELSE 8 * Len(Head(ls)) - 4 + SolidFaces(Tail(ls))

\* C21: gcode_to_obj completes and produces one ribbon-shaped solid for every
\* simplified polyline of every output tool, on whatever Z level the polyline
\* lies, and the mesh is all these solids one after the other.
C21_ObjForEveryLevel ==
    [][ObjFinish =>
          LET tools == [i \in 1..Len(extruder_lines) |-> simplify_lines(extruder_lines[i])]
              all == Flatten(tools)
              mesh == IF returned' = None THEN written' ELSE returned'
          IN /\ pc' = "done"
             /\ all # <<>> =>
                   /\ mesh.kind = "obj"
                   /\ mesh.vertices = VertexCount(all)
                   /\ Len(mesh.faces) = SolidFaces(all)]_vars

\* gcode_to_obj has finished and produced a mesh.
ObjProduced == pc = "done" /\ "obj" \in {written.kind, returned.kind}
Mesh == IF written.kind = "obj" THEN written ELSE returned

\* The polylines of the mesh in output order, and for the k-th of them the
\* number of vertices and of triangles that stand before its own.
Solids == Flatten(simplified)
VerticesBefore(k) == VertexCount(SubSeq(Solids, 1, k - 1))
FacesBefore(k) == SolidFaces(SubSeq(Solids, 1, k - 1))

\* The triangles of the k-th polyline with the vertex offset taken off again.
LocalFaces(k) ==
    LET n == Len(Solids[k])
    IN [f \in 1..(8 * n - 4) |->
          [c \in 1..3 |-> Mesh.faces[FacesBefore(k) + f][c] - VerticesBefore(k)]]

\* C22: for a polyline of n >= 2 points the mesh has exactly 4n vertices, 2n
\* bottom vertices followed by 2n top vertices, and exactly 8n - 4 triangles
\* that depend on n only and whose indices all lie in 0..4n-1; for n = 2 that
\* is 8 vertices and 12 triangles.
C22_VerticesAndFaces ==
    ObjProduced =>
        /\ Len(Mesh.layout) = Mesh.vertices
        /\ Len(Mesh.faces) = FacesBefore(Len(Solids) + 1)
        /\ Mesh.vertices = VerticesBefore(Len(Solids) + 1)
        /\ \A k \in 1..Len(Solids) :
              LET n == Len(Solids[k])
                  own == SubSeq(Mesh.layout, VerticesBefore(k) + 1, VerticesBefore(k) + 4 * n)
              IN /\ n >= 2
                 /\ Len(own) = 4 * n
                 /\ \A v \in 1..(4 * n) : own[v].lowered <=> v <= 2 * n
                 /\ \A v \in 1..(2 * n) :
                       /\ own[v].point = own[v + 2 * n].point
                       /\ own[v].side = own[v + 2 * n].side
                 /\ \A p \in 1..n :
                       { own[v].side : v \in { w \in 1..(2 * n) : own[w].point = p } }
                          = {"minus", "plus"}
                 /\ Len(create_faces(n)) = 8 * n - 4
                 /\ \A f \in 1..(8 * n - 4) : \A c \in 1..3 :
                       LocalFaces(k)[f][c] \in 0..(4 * n - 1)
                 /\ \A j \in 1..Len(Solids) :
                       Len(Solids[j]) = n => LocalFaces(j) = LocalFaces(k)
                 /\ n = 2 => (Len(own) = 8 /\ Len(LocalFaces(k)) = 12)

\* C22's case: a mesh of a polyline of 2 points and one of 5 points.
C22_Witness ==
    /\ ObjProduced
    /\ \E j, k \in 1..Len(Solids) : Len(Solids[j]) = 2 /\ Len(Solids[k]) = 5

\* C23: in the face buffer of the mesh every triangle of the k-th polyline,
\* counted across all tools in output order, references only vertex indices
\* from off_k up to but not including off_k + 4 n_k, where off_k is the number
\* of vertices of all polylines before it; no triangle references a vertex of
\* another polyline or an index past the end of the vertex buffer.
C23_FacesStayInOwnVertices ==
    ObjProduced =>
        /\ \A k \in 1..Len(Solids) :
              \A f \in (FacesBefore(k) + 1)..FacesBefore(k + 1) : \A c \in 1..3 :
                  /\ Mesh.faces[f][c] >= VerticesBefore(k)
                  /\ Mesh.faces[f][c] < VerticesBefore(k) + 4 * Len(Solids[k])
        /\ \A f \in 1..Len(Mesh.faces) : \A c \in 1..3 :
              Mesh.faces[f][c] \in 0..(Mesh.vertices - 1)

\* C23's case: a mesh of polylines of two tools, three or more in all.
C23_Witness ==
    /\ ObjProduced
    /\ Len(simplified) = 2
    /\ simplified[1] # <<>>
    /\ simplified[2] # <<>>
    /\ Len(Solids) >= 3

\* No polyline is left of the interpreter's lists after simplification.
NoneSurvives ==
    \A i \in 1..Len(extruder_lines) : simplify_lines(extruder_lines[i]) = <<>>

\* C24: if no polyline survives interpretation and simplification (every tool
\* filtered out, or no qualifying extruding move in the input), gcode_to_obj
\* returns an empty document and raises no error.
C24_EmptyObjWithoutError ==
    [][(ObjFinish /\ NoneSurvives) =>
          /\ pc' = "done"
          /\ returned'.kind = "text"
          /\ returned'.text = ""
          /\ written' = written]_vars

\* C24's case: gcode_to_obj returned the empty text for a non-empty include,
\* after an input with an extruding move whose polyline was filtered out.
C24_Witness ==
    /\ pc = "done"
    /\ Len(include) # 0
    /\ returned.kind = "text"
    /\ returned.text = ""
    /\ current_pt[4] > 0
    /\ \A i \in 1..Len(simplified) : simplified[i] = <<>>

\* What gcode_to_obj returns for the polylines ls when no other call runs.
Alone(ls) ==
    IF ls = <<>> THEN EmptyText
    ELSE [kind |-> "obj", vertices |-> VertexCount(ls), faces |-> Facets(ls, 0)]

\* C25: two conversion calls interleaved in any way produce the same outputs as
\* when each runs alone; the only shared object, the cache of create_faces
\* keyed by point count, is never modified after an entry is created: adding
\* the vertex offset builds a new array and leaves the stored one unchanged.
C25_CallsDoNotInterfere ==
    /\ [](\A w \in DOMAIN worker :
             worker[w].pc = "done" => worker[w].returned = Alone(worker[w].lines))
    /\ [](\A n \in DOMAIN cache : cache[n] = create_faces(n))
    /\ [][\A n \in DOMAIN cache : n \in DOMAIN cache' /\ cache'[n] = cache[n]]_vars

\* C25's case: each of the two calls has added its offset to one array and
\* has taken the array for its second polyline from the cache, not yet added
\* to; all four polylines have the same number of points, so that both calls
\* hold the same stored array.
C25_Witness ==
    /\ \A w \in Workers :
          /\ worker[w].pc = "add"
          /\ worker[w].at = 2
          /\ worker[w].offset > 0
    /\ \E n \in DOMAIN cache :
          \A w \in Workers : \A k \in 1..2 : Len(worker[w].lines[k]) = n

\* C26: the simplification loop of simplify_lines terminates for every
\* polyline: every round that does not end the loop removes at least one
\* interior point, and never the first or the last point, so the point count
\* strictly decreases until a round keeps every interior point or the minimum
\* count is reached.
C26_LoopTerminates ==
    /\ [][loop'.pc = "while" =>
            /\ Len(loop'.line) < Len(loop.line)
            /\ Len(loop'.line) >= 2
            /\ loop'.line[1] = loop.line[1]
            /\ loop'.line[Len(loop'.line)] = loop.line[Len(loop.line)]]_vars
    /\ <>(loop.pc = "break")
    /\ [](loop.pc = "break" =>
            \/ AtMinimum
            \/ KeepMask(loop.line) = 1..Len(loop.line))

\* C26's case: a loop that ended after two rounds that each removed a point,
\* with 3 or more points left that are all kept.
C26_Witness ==
    /\ loop.pc = "break"
    /\ loop.rounds >= 2
    /\ Len(loop.line) >= 3

\* The E parameter of the line read, when the line has exactly one.
OneE(parameters) ==
    { parameters[k].value : k \in { j \in 1..Len(parameters) :
          /\ parameters[j].letter = "E"
          /\ \A i \in 1..Len(parameters) : i # j => parameters[i].letter # "E" } }

\* C27 as stated: once an E-only command (M82/M83) has set the E mode, a later
\* G90 or G91 leaves E interpreted in the mode the E-only command chose: a move
\* reads its E value under that mode.
C27_EModeSurvivesSharedMode ==
    [][(MoveStep /\ e_only # "") =>
          \A v \in OneE(gcode_line.parameters) :
              current_pt'[4] = (IF e_only = "add" THEN current_pt[4] + v ELSE v)]_vars

\* The mode a mode command names.
ModeOf(command) == IF command \in {"G91", "M83"} THEN "add" ELSE "take"

\* C27, amended: the E mode is the one the most recent of G90, G91, M82 and M83
\* set.  M82/M83 set it for E alone; G90/G91 set it for X, Y, Z and E alike and
\* so replace what an earlier M82/M83 chose; no other command changes it, and a
\* move reads its E value under it.
C27_LastModeCommandWins ==
    [][pc = "parse" =>
          /\ gcode_line.command \in {"G90", "G91"} =>
                /\ op' = ModeOf(gcode_line.command)
                /\ extruder_op' = ModeOf(gcode_line.command)
          /\ gcode_line.command \in {"M82", "M83"} =>
                /\ op' = op
                /\ extruder_op' = ModeOf(gcode_line.command)
          /\ gcode_line.command \notin {"G90", "G91", "M82", "M83"} =>
                UNCHANGED << op, extruder_op >>
          /\ MoveStep =>
                \A v \in OneE(gcode_line.parameters) :
                    current_pt'[4] =
                        (IF extruder_op = "add" THEN current_pt[4] + v ELSE v)]_vars

\* C27's case: M83 chose relative E, a later G90 has been read, and a move
\* with an E value is the line to read next.
C27_Witness ==
    /\ pc = "parse"
    /\ e_only = "add"
    /\ shared_mode = "take"
    /\ extruder_op = "take"
    /\ gcode_line.command = "G1"
    /\ OneE(gcode_line.parameters) # {}
    /\ current_pt[4] # 0

\* C28: for every input with well-formed numbers and every non-empty include,
\* gcode_to_json completes without raising and returns or writes a layer
\* document, also when no polyline survives (no extruding move, every polyline
\* removed by simplification, or none of the included tools left in the
\* interpreter's output); the document then has no layer with lines.
C28_JsonWithoutError ==
    [][JsonFinish =>
          LET data == IF returned' = None THEN written' ELSE returned'
          IN /\ pc' = "done"
             /\ data.kind = "json"
             /\ NoneSurvives =>
                   \A i \in 1..Len(data.layers) : \A k \in 1..Len(data.layers[i]) :
                       data.layers[i][k].lines = <<>>]_vars

\* C29: whenever update_output returns the output file's name without running
\* a conversion, because the file is considered up to date, the file holds the
\* complete result of a finished, successful conversion of the current gcode:
\* neither a conversion that raised nor one still running in another pool
\* process leaves an empty or partly written file that is served as up to date.
C29_UpToDateMeansComplete ==
    \A r \in DOMAIN request :
        (request[r].pc = "returned" /\ ~request[r].converted) =>
            request[r].found = "complete"

\* C30: a request for the stream that arrives while another request is still
\* starting it waits until startup has finished (the playlist file exists and
\* the process is recorded in the streams table) before it serves the
\* playlist, and at most one transcoding process is started per printer name
\* for any interleaving of requests and of the periodic terminator.
C30_WaitsForStartup ==
    /\ \A v \in DOMAIN viewer :
          viewer[v].pc = "served" => (viewer[v].playlist /\ viewer[v].recorded)
    /\ Cardinality(transcoders) <= 1

====
